---- MODULE Spec2Model ----
(***************************************************************************)
(* Model of the lyric analysis of src/script.js (the definitions of lines   *)
(* 728-1183, which are the ones in force: later function declarations of    *)
(* the same name replace the earlier ones).                                 *)
(*                                                                          *)
(* A JavaScript string is modelled as a sequence of one-character strings,  *)
(* so that trimming, lowercasing, regular-expression replacement and        *)
(* splitting are computed character by character as the code does.          *)
(* Line indices are 0-based as in the code; the k-th line (0-based) of the  *)
(* buffer is lines[k + 1].                                                  *)
(***************************************************************************)
EXTENDS Integers, Sequences, FiniteSets, TLC

(***************************************************************************)
(* Characters                                                               *)
(***************************************************************************)

\* The 26 letters matched by the character class [a-z].
LowerLetters == << "a", "b", "c", "d", "e", "f", "g", "h", "i", "j", "k", "l", "m",
                   "n", "o", "p", "q", "r", "s", "t", "u", "v", "w", "x", "y", "z" >>

UpperLetters == << "A", "B", "C", "D", "E", "F", "G", "H", "I", "J", "K", "L", "M",
                   "N", "O", "P", "Q", "R", "S", "T", "U", "V", "W", "X", "Y", "Z" >>

AZ == { LowerLetters[k] : k \in 1..26 }

\* const vowels = "aeiouy"; vowels.includes(c)
vowels == { "a", "e", "i", "o", "u", "y" }

\* Characters matched by \s and removed by String.prototype.trim.
WhiteSpace == { " ", "\t" }

\* Characters removed by getLastWord: /[.,!?;:"'()[\]{}]/g
Punctuation == { ".", ",", "!", "?", ";", ":", "\"", "'", "(", ")", "[", "]", "{", "}" }

\* The capital letters and the small letters they map to.
UpperSet == { UpperLetters[k] : k \in 1..26 }

LowerOf ==
    ("A" :> "a") @@ ("B" :> "b") @@ ("C" :> "c") @@ ("D" :> "d") @@ ("E" :> "e") @@
    ("F" :> "f") @@ ("G" :> "g") @@ ("H" :> "h") @@ ("I" :> "i") @@ ("J" :> "j") @@
    ("K" :> "k") @@ ("L" :> "l") @@ ("M" :> "m") @@ ("N" :> "n") @@ ("O" :> "o") @@
    ("P" :> "p") @@ ("Q" :> "q") @@ ("R" :> "r") @@ ("S" :> "s") @@ ("T" :> "t") @@
    ("U" :> "u") @@ ("V" :> "v") @@ ("W" :> "w") @@ ("X" :> "x") @@ ("Y" :> "y") @@
    ("Z" :> "z")

UpperOf ==
    ("a" :> "A") @@ ("b" :> "B") @@ ("c" :> "C") @@ ("d" :> "D") @@ ("e" :> "E") @@
    ("f" :> "F") @@ ("g" :> "G") @@ ("h" :> "H") @@ ("i" :> "I") @@ ("j" :> "J") @@
    ("k" :> "K") @@ ("l" :> "L") @@ ("m" :> "M") @@ ("n" :> "N") @@ ("o" :> "O") @@
    ("p" :> "P") @@ ("q" :> "Q") @@ ("r" :> "R") @@ ("s" :> "S") @@ ("t" :> "T") @@
    ("u" :> "U") @@ ("v" :> "V") @@ ("w" :> "W") @@ ("x" :> "X") @@ ("y" :> "Y") @@
    ("z" :> "Z")

ToLowerChar(c) == IF c \in UpperSet THEN LowerOf[c] ELSE c

ToUpperChar(c) == IF c \in AZ THEN UpperOf[c] ELSE c

(***************************************************************************)
(* String primitives                                                        *)
(***************************************************************************)

\* String.prototype.toLowerCase
ToLowerCase(s) == [k \in 1..Len(s) |-> ToLowerChar(s[k])]

\* String.prototype.toUpperCase
ToUpperCase(s) == [k \in 1..Len(s) |-> ToUpperChar(s[k])]

\* s.replace(/[^a-z]/g, "")
StripNonLetters(s) == SelectSeq(s, LAMBDA c : c \in AZ)

\* s.replace(/[.,!?;:"'()[\]{}]/g, "")
StripPunctuation(s) == SelectSeq(s, LAMBDA c : c \notin Punctuation)

RECURSIVE TrimStart(_)
TrimStart(s) ==
    IF s # << >> /\ Head(s) \in WhiteSpace THEN TrimStart(Tail(s)) ELSE s

RECURSIVE TrimEnd(_)
TrimEnd(s) ==
    IF s # << >> /\ s[Len(s)] \in WhiteSpace
    THEN TrimEnd(SubSeq(s, 1, Len(s) - 1))
    ELSE s

\* String.prototype.trim
Trim(s) == TrimEnd(TrimStart(s))

\* s.split(/\s+/): the pieces between maximal runs of white space.  A string
\* that starts (ends) with white space yields an empty first (last) piece.
RECURSIVE SplitFrom(_, _, _, _)
SplitFrom(s, k, cur, inGap) ==
    IF k > Len(s) THEN << cur >>
    ELSE IF s[k] \in WhiteSpace
         THEN IF inGap THEN SplitFrom(s, k + 1, cur, TRUE)
              ELSE << cur >> \o SplitFrom(s, k + 1, << >>, TRUE)
         ELSE SplitFrom(s, k + 1, Append(cur, s[k]), FALSE)

SplitWhiteSpace(s) == SplitFrom(s, 1, << >>, FALSE)

\* s.slice(-3)
SliceLast3(s) == SubSeq(s, IF Len(s) > 3 THEN Len(s) - 2 ELSE 1, Len(s))

\* s.endsWith(t)
EndsWith(s, t) ==
    /\ Len(s) >= Len(t)
    /\ SubSeq(s, Len(s) - Len(t) + 1, Len(s)) = t

(***************************************************************************)
(* JavaScript values returned by countSyllables and countLineSyllables      *)
(***************************************************************************)

JsNumber(n) == [type |-> "number", value |-> n]

\* Object.prototype.constructor, the function Object.
ObjectFunction == [type |-> "function", value |-> 0]

\* A string built by "+" from a number and a non-number.
JsString == [type |-> "string", value |-> 0]

\* a + b: numeric addition of two numbers, string concatenation otherwise.
JsPlus(a, b) ==
    IF a.type = "number" /\ b.type = "number"
    THEN JsNumber(a.value + b.value)
    ELSE JsString

(***************************************************************************)
(* countSyllables                                                           *)
(***************************************************************************)

\* The object literal specialCases: its own properties.
specialCases ==
    { << << "t", "h", "e" >>, 1 >>,
      << << "a" >>, 1 >>,
      << << "i" >>, 1 >>,
      << << "a", "r", "e" >>, 1 >>,
      << << "f", "i", "r", "e" >>, 2 >>,
      << << "h", "o", "u", "r" >>, 2 >>,
      << << "o", "u", "r" >>, 2 >>,
      << << "e", "v", "e", "r", "y" >>, 3 >>,
      << << "b", "e", "i", "n", "g" >>, 2 >>,
      << << "q", "u", "i", "e", "t" >>, 2 >>,
      << << "p", "o", "e", "m" >>, 2 >> }

\* The only property that an object literal inherits from Object.prototype
\* under a name made of the letters a-z alone.
ConstructorKey == << "c", "o", "n", "s", "t", "r", "u", "c", "t", "o", "r" >>

\* specialCases[word]: an own property, else a property inherited from
\* Object.prototype, else undefined.
SpecialCaseLookup(word) ==
    IF \E e \in specialCases : e[1] = word
    THEN JsNumber((CHOOSE e \in specialCases : e[1] = word)[2])
    ELSE IF word = ConstructorKey
         THEN ObjectFunction
         ELSE [type |-> "undefined", value |-> 0]

\* if (specialCases[word]): undefined and 0 are falsy, a function is truthy.
Truthy(v) ==
    \/ v.type = "function"
    \/ v.type = "number" /\ v.value # 0

\* The loop of lines 782-790: one count per maximal run of vowels.
RECURSIVE VowelGroups(_, _, _)
VowelGroups(word, i, previousWasVowel) ==
    IF i > Len(word) THEN 0
    ELSE LET isVowel == word[i] \in vowels
         IN  (IF isVowel /\ ~previousWasVowel THEN 1 ELSE 0)
             + VowelGroups(word, i + 1, isVowel)

\* if (word.endsWith("e") && count > 1) count--;
SilentE(word, count) ==
    IF EndsWith(word, << "e" >>) /\ count > 1 THEN count - 1 ELSE count

\* if (word.length > 2 && word.endsWith("le") && !vowels.includes(word[word.length - 3])) count++;
LeEnding(word, count) ==
    IF /\ Len(word) > 2
       /\ EndsWith(word, << "l", "e" >>)
       /\ word[Len(word) - 2] \notin vowels
    THEN count + 1
    ELSE count

\* Math.max(1, count)
AtLeastOne(count) == IF count > 1 THEN count ELSE 1

\* Lines 756-807, word being the lowercased letters of the argument.
CountNormalized(word) ==
    IF Len(word) = 0 THEN JsNumber(0)
    ELSE IF Truthy(SpecialCaseLookup(word)) THEN SpecialCaseLookup(word)
    ELSE JsNumber(AtLeastOne(LeEnding(word, SilentE(word, VowelGroups(word, 1, FALSE)))))

countSyllables(rawWord) ==
    IF Len(Trim(ToLowerCase(rawWord))) = 0 THEN JsNumber(0)
    ELSE CountNormalized(StripNonLetters(Trim(ToLowerCase(rawWord))))

(***************************************************************************)
(* getLastWord, normalizeWord, getRimeParts, getPhoneticPattern             *)
(***************************************************************************)

\* Variant: the first word is taken.
FirstLowered(words) == ToLowerCase(words[1])

\* words[words.length - 1].toLowerCase()
LastLowered(words) == ToLowerCase(words[Len(words)])

getLastWord(line) ==
    IF Trim(line) = << >> THEN << >>
    ELSE LastLowered(SplitWhiteSpace(StripPunctuation(Trim(line))))

normalizeWord(rawWord) ==
    IF rawWord = << >> THEN << >>
    ELSE StripNonLetters(ToLowerCase(rawWord))

\* while (index >= 0 && !vowels.includes(normalized[index])) index--;
\* The position (1-based) of the last letter before the trailing consonants,
\* 0 when the word is all consonants.
RECURSIVE SkipConsonants(_, _)
SkipConsonants(normalized, index) ==
    IF index >= 1 /\ normalized[index] \notin vowels
    THEN SkipConsonants(normalized, index - 1)
    ELSE index

\* while (index >= 0 && vowels.includes(normalized[index])) index--;
RECURSIVE SkipVowels(_, _)
SkipVowels(normalized, index) ==
    IF index >= 1 /\ normalized[index] \in vowels
    THEN SkipVowels(normalized, index - 1)
    ELSE index

\* Lines 851-866: the record returned for the two runs found.
RimeRecord(normalized, vowelCluster, coda) ==
    IF vowelCluster = << >>
    THEN [vowelCluster |-> << >>, coda |-> << >>, rime |-> << >>,
          ending |-> SliceLast3(normalized)]
    ELSE [vowelCluster |-> vowelCluster, coda |-> coda,
          rime |-> vowelCluster \o coda, ending |-> SliceLast3(normalized)]

\* Lines 845-849, codaFrom being the index reached by the first loop.
RimeSplit(normalized, codaFrom) ==
    RimeRecord(normalized,
               SubSeq(normalized, SkipVowels(normalized, codaFrom) + 1, codaFrom),
               SubSeq(normalized, codaFrom + 1, Len(normalized)))

\* Lines 830-843.
RimeOfNormalized(normalized) ==
    IF normalized = << >>
    THEN [vowelCluster |-> << >>, coda |-> << >>, rime |-> << >>, ending |-> << >>]
    ELSE RimeSplit(normalized, SkipConsonants(normalized, Len(normalized)))

getRimeParts(rawWord) == RimeOfNormalized(normalizeWord(rawWord))

PatternOfParts(parts) ==
    [vowelSound      |-> ToUpperCase(parts.vowelCluster),
     consonantEnding |-> parts.coda,
     exactEnding     |-> parts.ending]

getPhoneticPattern(word) == PatternOfParts(getRimeParts(word))

(***************************************************************************)
(* isRhyme, isNearRhyme                                                     *)
(***************************************************************************)

\* Variant: a word is compared with itself.
ComparableNonEmpty(first, second) == first # << >> /\ second # << >>

\* Lines 896-898 and 915-917: the guard shared by both classifiers.
Comparable(first, second) ==
    first # << >> /\ second # << >> /\ first # second

\* Variant: only the first word is required to have a vowel cluster.
FirstHasVowelCluster(parts1, parts2) == parts1.vowelCluster # << >>

\* Line 902: if (!parts1.vowelCluster || !parts2.vowelCluster) return false;
BothHaveVowelCluster(parts1, parts2) ==
    parts1.vowelCluster # << >> /\ parts2.vowelCluster # << >>

\* Variant: the vowel clusters are compared instead of the rimes.
VowelClustersMatch(parts1, parts2) ==
    /\ BothHaveVowelCluster(parts1, parts2)
    /\ \/ parts1.vowelCluster = parts2.vowelCluster
       \/ parts1.ending = parts2.ending /\ Len(parts1.ending) >= 2

\* Lines 905-910.
RimesMatch(parts1, parts2) ==
    /\ BothHaveVowelCluster(parts1, parts2)
    /\ \/ parts1.rime = parts2.rime
       \/ parts1.ending = parts2.ending /\ Len(parts1.ending) >= 2

\* Lines 898-910, first and second being the normalized words.
RhymeOfNormalized(first, second) ==
    /\ Comparable(first, second)
    /\ RimesMatch(getRimeParts(first), getRimeParts(second))

isRhyme(word1, word2) == RhymeOfNormalized(normalizeWord(word1), normalizeWord(word2))

\* Variant: perfect rhymes are not excluded.
PerfectRhymeIgnored(word1, word2) == TRUE

\* Line 918: if (isRhyme(word1, word2)) return false;
NotPerfectRhyme(word1, word2) == ~isRhyme(word1, word2)

\* Lines 923-941.
PatternsNear(pattern1, pattern2) ==
    \/ /\ pattern1.vowelSound # << >>
       /\ pattern1.vowelSound = pattern2.vowelSound
       /\ pattern1.consonantEnding # pattern2.consonantEnding
    \/ /\ pattern1.consonantEnding # << >>
       /\ pattern1.consonantEnding = pattern2.consonantEnding
       /\ pattern1.vowelSound # pattern2.vowelSound

\* Lines 917-941, first and second being the normalized words.
NearOfNormalized(word1, word2, first, second) ==
    /\ Comparable(first, second)
    /\ NotPerfectRhyme(word1, word2)
    /\ PatternsNear(getPhoneticPattern(first), getPhoneticPattern(second))

isNearRhyme(word1, word2) ==
    NearOfNormalized(word1, word2, normalizeWord(word1), normalizeWord(word2))

\* countLineSyllables: the sum over the non-blank pieces of line.split(/\s+/).
RECURSIVE SumSyllables(_, _, _)
SumSyllables(words, k, total) ==
    IF k > Len(words) THEN total
    ELSE IF Trim(words[k]) # << >>
         THEN SumSyllables(words, k + 1, JsPlus(total, countSyllables(words[k])))
         ELSE SumSyllables(words, k + 1, total)

countLineSyllables(line) ==
    IF Trim(line) = << >> THEN JsNumber(0)
    ELSE SumSyllables(SplitWhiteSpace(line), 1, JsNumber(0))

(***************************************************************************)
(* Bounds and input sets                                                    *)
(***************************************************************************)

\* The longest word made of WordChars that is given to the classifiers.
MaxWordLen == 3

\* The largest number of lines of the buffer.
MaxLines == 4

\* Two vowels, one consonant and its capital letter.
WordChars == { "a", "i", "t", "T" }

RECURSIVE SeqsUpTo(_, _)
SeqsUpTo(S, n) ==
    IF n = 0 THEN { << >> }
    ELSE LET shorter == SeqsUpTo(S, n - 1)
         IN  shorter \cup { Append(w, c) : w \in { v \in shorter : Len(v) = n - 1 }, c \in S }

\* Words of the documentation and of the comments of the code, and words
\* whose rime is longer than their last three letters.
SampleWords ==
    { << "t", "i", "m", "e" >>, << "f", "i", "n", "e" >>,
      << "c", "a", "t" >>, << "b", "a", "t" >>, << "d", "o", "g" >>,
      << "l", "i", "g", "h", "t" >>, << "l", "i", "k", "e" >>,
      << "f", "i", "r", "e" >>, << "t", "h", "e" >>,
      << "t", "a", "b", "l", "e" >>,
      << "a", "e", "a", "t" >>, << "b", "e", "a", "t" >>,
      << "a", "t", "t", "n" >>, << "t", "t", "t", "n" >>, << "b", "t", "t", "n" >>,
      << "C", "a", "t", "!" >>, << "1", "2" >>, << " ", "a", " " >>,
      << "t", "-", "a" >>, << "'" >>,
      ConstructorKey }

Words == SeqsUpTo(WordChars, MaxWordLen) \cup SampleWords

\* The longest word made of TripleChars that is compared with two others.
MaxTripleLen == 4

\* One vowel and one consonant.
TripleChars == { "a", "t" }

\* Words with one rime and different last three letters, and words with
\* the same last three letters and different rimes.
TripleWords ==
    SeqsUpTo(TripleChars, MaxTripleLen)
    \cup { << "s", "e", "a", "t" >>, << "b", "e", "a", "t" >>, << "a", "e", "a", "t" >> }

\* Lines of several words: "my Days!", "a T-1!", "t !", " It's (a) 2nd\t" and "\t ".
SampleLines ==
    { << "m", "y", " ", "D", "a", "y", "s", "!" >>,
      << "a", " ", "T", "-", "1", "!" >>,
      << "t", " ", "!" >>,
      << " ", "I", "t", "'", "s", " ", "(", "a", ")", " ", "2", "n", "d", "\t" >>,
      << "\t", " " >> }

BreakLine == << "-", "-", "-" >>

\* The texts typed into an empty line of the buffer.
TypedTexts ==
    { << " " >>,
      BreakLine,
      << " ", "-", "-", "-" >>,
      << "d", "a", "y" >>,
      << "w", "a", "y" >>,
      << "p", "l", "a", "y" >>,
      << "m", "y", " ", "D", "a", "y", "s", "!" >> }

(***************************************************************************)
(* State                                                                    *)
(***************************************************************************)

VARIABLES
    lines,            \* editor.value.split("\n")
    storage,          \* localStorage[STORAGE_KEY] as lines, NoItem when absent
    rhymeGroups,      \* the rhymeGroups of the last run of updateEditor
    nearRhymeGroups,  \* the nearRhymeGroups of the last run of updateEditor
    lineNumbers,      \* the cells of lineNumbers.innerHTML
    syllableCounts,   \* the cells of syllableCounts.innerHTML
    rhymeIndicators,  \* the cells of rhymeIndicators.innerHTML
    rerun,            \* TRUE when the last handler left the buffer as it was
    word1, word2,     \* the arguments of a call of the classifiers
    word3,            \* a third word, compared with each of the two
    phase,            \* "idle" in the editor, else the step reached on the words
    answer            \* the values returned for word1 and word2

vars == << lines, storage, rhymeGroups, nearRhymeGroups, lineNumbers, syllableCounts,
           rhymeIndicators, rerun, word1, word2, word3, phase, answer >>

editorVars == << lines, storage, rhymeGroups, nearRhymeGroups, lineNumbers,
                 syllableCounts, rhymeIndicators, rerun >>

wordVars == << word1, word2, word3, phase, answer >>

(***************************************************************************)
(* updateEditor                                                             *)
(***************************************************************************)

\* const BREAK_MARKER = "---";
BREAK_MARKER == BreakLine

\* lines[i].trim() && lines[i].trim() !== BREAK_MARKER
IsContent(line) == Trim(line) # << >> /\ Trim(line) # BREAK_MARKER

\* const lastWords = lines.map((line) => getLastWord(line));
\* The last words of the lines of index from .. to - 1.
RECURSIVE LastWordsFrom(_, _, _)
LastWordsFrom(lns, from, to) ==
    IF to <= from THEN << >>
    ELSE IF to = from + 1 THEN << getLastWord(lns[from + 1]) >>
    ELSE LastWordsFrom(lns, from, (from + to) \div 2)
         \o LastWordsFrom(lns, (from + to) \div 2, to)

LastWords(lns) == LastWordsFrom(lns, 0, Len(lns))

\* The loop of lines 979-984; the positions are 0-based.
BreakPositions(lns) == { i \in 0..(Len(lns) - 1) : Trim(lns[i + 1]) = BREAK_MARKER }

\* Variant: a break marker at the larger index does not separate.
inSameSectionStrict(breakPositions, i, j) ==
    \A breakPos \in breakPositions :
        ~ ((i < breakPos /\ j > breakPos) \/ (j < breakPos /\ i > breakPos))

\* Variant: the break positions are not consulted.
inSameSectionAlways(breakPositions, i, j) == TRUE

inSameSection(breakPositions, i, j) ==
    \A breakPos \in breakPositions :
        ~ ((i < breakPos /\ j >= breakPos) \/ (j < breakPos /\ i >= breakPos))

\* rhymeGroups.some((group) => group.includes(i))
SomeIncludes(groups, i) ==
    \E g \in 1..Len(groups) : \E m \in 1..Len(groups[g]) : groups[g][m] = i

\* Variant: the scan starts at i + 2.
AfterNext(lns, i) == [k \in 1..(Len(lns) - 2 - i) |-> i + 1 + k]

\* The indices i + 1 .. lines.length - 1 in increasing order.
After(lns, i) == [k \in 1..(Len(lns) - 1 - i) |-> i + k]

\* Variant: the partners are compared with the line before them.
RhymeCandidateOfNeighbours(lns, lastWords, breakPositions, i) ==
    << i >> \o SelectSeq(After(lns, i),
                         LAMBDA j : /\ IsContent(lns[j + 1])
                                    /\ inSameSection(breakPositions, i, j)
                                    /\ isRhyme(lastWords[j], lastWords[j + 1]))

\* Lines 1007-1017: the anchor followed by every later partner.
RhymeCandidate(lns, lastWords, breakPositions, i) ==
    << i >> \o SelectSeq(After(lns, i),
                         LAMBDA j : /\ IsContent(lns[j + 1])
                                    /\ inSameSection(breakPositions, i, j)
                                    /\ isRhyme(lastWords[i + 1], lastWords[j + 1]))

\* Lines 1027-1037.
NearRhymeCandidate(lns, lastWords, breakPositions, i) ==
    << i >> \o SelectSeq(After(lns, i),
                         LAMBDA j : /\ IsContent(lns[j + 1])
                                    /\ inSameSection(breakPositions, i, j)
                                    /\ isNearRhyme(lastWords[i + 1], lastWords[j + 1]))

\* if (rhymeGroup.length > 1) and if (nearRhymeGroup.length > 1)
\* Variant: a candidate holding only its anchor is pushed too.
KeepNonEmpty(group) == Len(group) > 0

Keep(group) == Len(group) > 1

\* if (allowed) { ...; if (group.length > 1) groups.push(group); }
PushIfKept(groups, group, allowed) ==
    IF allowed /\ Keep(group) THEN Append(groups, group) ELSE groups

\* One iteration for a content line i.  inRhymeGroup is the value read at
\* line 1004, before the rhyme group of i is pushed; the value read at line
\* 1024 is that of the near-rhyme list before this iteration.
Iteration(lns, lastWords, breakPositions, i, rGroups, nGroups, inRhymeGroup) ==
    [rhymeGroups |->
         PushIfKept(rGroups, RhymeCandidate(lns, lastWords, breakPositions, i),
                    ~inRhymeGroup),
     nearRhymeGroups |->
         PushIfKept(nGroups, NearRhymeCandidate(lns, lastWords, breakPositions, i),
                    ~SomeIncludes(nGroups, i) /\ ~inRhymeGroup)]

\* The loop of lines 1000-1042 for the indices from .. to - 1 in increasing
\* order, starting with the lists groups: the iterations of the first half
\* of the range, then those of the second half on what the first half left.
RECURSIVE ForwardPass(_, _, _, _, _, _)
ForwardPass(lns, lastWords, breakPositions, from, to, groups) ==
    IF to <= from THEN groups
    ELSE IF to = from + 1
    THEN IF ~IsContent(lns[from + 1]) THEN groups
         ELSE Iteration(lns, lastWords, breakPositions, from,
                        groups.rhymeGroups, groups.nearRhymeGroups,
                        SomeIncludes(groups.rhymeGroups, from))
    ELSE CHOOSE done \in
             { ForwardPass(lns, lastWords, breakPositions, (from + to) \div 2, to, firstHalf) :
                  firstHalf \in { ForwardPass(lns, lastWords, breakPositions,
                                              from, (from + to) \div 2, groups) } } : TRUE

\* const rhymeGroups = []; const nearRhymeGroups = [];
\* Variant: the list of the previous run is kept.
StaleRhymeGroups == rhymeGroups

FreshRhymeGroups == << >>

FreshNearRhymeGroups == << >>

Grouping(lns) ==
    ForwardPass(lns, LastWords(lns), BreakPositions(lns), 0, Len(lns),
                [rhymeGroups |-> FreshRhymeGroups,
                 nearRhymeGroups |-> FreshNearRhymeGroups])

\* groups.findIndex((group) => group.includes(i)): 0-based, -1 when absent.
FindIndex(groups, i) ==
    IF SomeIncludes(groups, i)
    THEN (CHOOSE g \in 1..Len(groups) :
             /\ SomeIncludes(<< groups[g] >>, i)
             /\ \A h \in 1..(g - 1) : ~SomeIncludes(<< groups[h] >>, i)) - 1
    ELSE -1

EmptyCell == [type |-> "empty", value |-> 0]

\* The number of rhyme-color-N classes the indicators cycle through.
ColorCount == 30

\* Lines 1045-1052: the cells of the lines of index from .. to - 1.
RECURSIVE LineNumbersFrom(_, _, _)
LineNumbersFrom(lns, from, to) ==
    IF to <= from THEN << >>
    ELSE IF to = from + 1
    THEN << IF Trim(lns[from + 1]) = BREAK_MARKER
            THEN [text |-> "dash", number |-> 0]
            ELSE [text |-> "number", number |-> from + 1] >>
    ELSE LineNumbersFrom(lns, from, (from + to) \div 2)
         \o LineNumbersFrom(lns, (from + to) \div 2, to)

LineNumberCells(lns) == LineNumbersFrom(lns, 0, Len(lns))

\* Variant: the cell of a break marker is not left empty.
SyllableCellOfBreakToo(line) ==
    IF Trim(line) # << >> THEN countLineSyllables(line) ELSE EmptyCell

\* Lines 1056-1062 for one line.
SyllableCell(line) ==
    IF Trim(line) = BREAK_MARKER THEN EmptyCell
    ELSE IF Trim(line) # << >> THEN countLineSyllables(line)
    ELSE EmptyCell

RECURSIVE SyllablesFrom(_, _, _)
SyllablesFrom(lns, from, to) ==
    IF to <= from THEN << >>
    ELSE IF to = from + 1 THEN << SyllableCell(lns[from + 1]) >>
    ELSE SyllablesFrom(lns, from, (from + to) \div 2)
         \o SyllablesFrom(lns, (from + to) \div 2, to)

\* Lines 1055-1063.
SyllableCells(lns) == SyllablesFrom(lns, 0, Len(lns))

NoIndicator == [kind |-> "none", color |-> -1]

\* Lines 1072-1093 for a content line.
IndicatorOf(rhymeGroupIndex, nearRhymeGroupIndex) ==
    IF rhymeGroupIndex # -1
    THEN [kind |-> "rhyme", color |-> rhymeGroupIndex % ColorCount]
    ELSE IF nearRhymeGroupIndex # -1
    THEN [kind |-> "near", color |-> nearRhymeGroupIndex % ColorCount]
    ELSE NoIndicator

\* Lines 1068-1093 for the line of index i.
IndicatorCell(line, i, rGroups, nGroups) ==
    IF Trim(line) = << >> \/ Trim(line) = BREAK_MARKER THEN NoIndicator
    ELSE IndicatorOf(FindIndex(rGroups, i), FindIndex(nGroups, i))

RECURSIVE IndicatorsFrom(_, _, _, _, _)
IndicatorsFrom(lns, from, to, rGroups, nGroups) ==
    IF to <= from THEN << >>
    ELSE IF to = from + 1
    THEN << IndicatorCell(lns[from + 1], from, rGroups, nGroups) >>
    ELSE IndicatorsFrom(lns, from, (from + to) \div 2, rGroups, nGroups)
         \o IndicatorsFrom(lns, (from + to) \div 2, to, rGroups, nGroups)

\* Lines 1066-1095.
IndicatorCells(lns, rGroups, nGroups) ==
    IndicatorsFrom(lns, 0, Len(lns), rGroups, nGroups)

\* What updateEditor writes for the buffer lns and its groups.
Rendered(lns, groups) ==
    [rhymeGroups     |-> groups.rhymeGroups,
     nearRhymeGroups |-> groups.nearRhymeGroups,
     lineNumbers     |-> LineNumberCells(lns),
     syllableCounts  |-> SyllableCells(lns),
     rhymeIndicators |-> IndicatorCells(lns, groups.rhymeGroups, groups.nearRhymeGroups)]

Analysis(lns) == Rendered(lns, Grouping(lns))

\* The state left by a run of updateEditor with the results out.
Shown(newLines, out) ==
    /\ lines' = newLines
    /\ storage' = newLines
    /\ rhymeGroups' = out.rhymeGroups
    /\ nearRhymeGroups' = out.nearRhymeGroups
    /\ lineNumbers' = out.lineNumbers
    /\ syllableCounts' = out.syllableCounts
    /\ rhymeIndicators' = out.rhymeIndicators
    /\ rerun' = (newLines = lines)
    /\ UNCHANGED wordVars

\* updateEditor on the buffer newLines: editor.value is newLines.join("\n").
updateEditor(newLines) == Shown(newLines, Analysis(newLines))

(***************************************************************************)
(* The editor: initialisation and handlers                                  *)
(***************************************************************************)

\* "".split("\n")
EmptyBuffer == << << >> >>

NoAnswer == [op |-> "none"]

WordsIdle ==
    /\ word1 = << >>
    /\ word2 = << >>
    /\ word3 = << >>
    /\ phase = "idle"
    /\ answer = NoAnswer

\* Lines 1112-1114 with nothing saved: loadSavedContent(); updateEditor();
\* The buffer is "", one empty line: no group, line number 1, an empty
\* syllable cell and an empty indicator.
EditorStart ==
    /\ lines = EmptyBuffer
    /\ storage = EmptyBuffer
    /\ rhymeGroups = << >>
    /\ nearRhymeGroups = << >>
    /\ lineNumbers = << [text |-> "number", number |-> 1] >>
    /\ syllableCounts = << EmptyCell >>
    /\ rhymeIndicators = << NoIndicator >>
    /\ rerun = FALSE

Init == EditorStart /\ WordsIdle

\* The buffers one edit at the end of the text area away: a text typed
\* into the empty last line, or the Enter key starting a new empty line.
Edits(lns) ==
    { [lns EXCEPT ![Len(lns)] = t] : t \in { u \in TypedTexts : lns[Len(lns)] = << >> } }
    \cup { Append(lns, << >>) : n \in { m \in { Len(lns) } : m < MaxLines } }

\* editor.addEventListener("input", updateEditor);
Input ==
    \E newLines \in Edits(lines) : updateEditor(newLines)

\* The insertBreak button, the cursor at the start (atEnd = FALSE) or at the
\* end (atEnd = TRUE) of line k: textBefore + "\n---\n" + textAfter.
InsertBreak ==
    /\ Len(lines) + 2 <= MaxLines
    /\ \E k \in 1..Len(lines), atEnd \in BOOLEAN :
          LET textBefore == IF atEnd THEN lines[k] ELSE << >>
              textAfter  == IF atEnd THEN << >> ELSE lines[k]
          IN  updateEditor(SubSeq(lines, 1, k - 1)
                               \o << textBefore, BREAK_MARKER, textAfter >>
                               \o SubSeq(lines, k + 1, Len(lines)))

\* The removeBlankLines button: filter, join("\n"), and split("\n") again
\* in updateEditor, so that an empty result is one empty line.
RemoveBlankLines ==
    LET filteredLines == SelectSeq(lines, LAMBDA line :
                                       Trim(line) # << >> \/ Trim(line) = BREAK_MARKER)
    IN  updateEditor(IF filteredLines = << >> THEN EmptyBuffer ELSE filteredLines)

\* The clearAll button; nothing happens when confirm() is declined.
ClearAll ==
    \E confirmed \in BOOLEAN :
        IF confirmed THEN updateEditor(EmptyBuffer) ELSE UNCHANGED vars

Next == Input \/ InsertBreak \/ RemoveBlankLines \/ ClearAll

Spec == Init /\ [][Next]_vars

(***************************************************************************)
(* The classifiers and the syllable counter applied to given words          *)
(***************************************************************************)

InitWords ==
    /\ EditorStart
    /\ word1 \in Words \cup SampleLines
    /\ word2 = << >>
    /\ word3 = << >>
    /\ phase = "first"
    /\ answer = NoAnswer

\* countSyllables(word1)
CountSyllables ==
    /\ phase = "first"
    /\ answer' = [op |-> "count", syllables |-> countSyllables(word1)]
    /\ phase' = "counted"
    /\ UNCHANGED << word1, word2, word3 >>
    /\ UNCHANGED editorVars

\* getLastWord(word1), word1 being a line.
GetLastWord ==
    /\ phase = "first"
    /\ answer' = [op |-> "lastWord", lastWord |-> getLastWord(word1)]
    /\ phase' = "lastWord"
    /\ UNCHANGED << word1, word2, word3 >>
    /\ UNCHANGED editorVars

\* A second word is given.
SecondWord ==
    /\ phase = "counted"
    /\ \E w \in Words : word2' = w
    /\ phase' = "second"
    /\ UNCHANGED << word1, word3, answer >>
    /\ UNCHANGED editorVars

\* isRhyme and isNearRhyme on the two words, in both orders.
Classify ==
    /\ phase = "second"
    /\ answer' = [op        |-> "classify",
                  syllables |-> answer.syllables,
                  rhyme     |-> isRhyme(word1, word2),
                  nearRhyme |-> isNearRhyme(word1, word2),
                  rhymeSwap |-> isRhyme(word2, word1),
                  nearSwap  |-> isNearRhyme(word2, word1)]
    /\ phase' = "done"
    /\ UNCHANGED << word1, word2, word3 >>
    /\ UNCHANGED editorVars

NextWords == CountSyllables \/ GetLastWord \/ SecondWord \/ Classify

SpecWords == InitWords /\ [][NextWords]_vars

(***************************************************************************)
(* isRhyme applied to the three pairs of three words                        *)
(***************************************************************************)

InitTriples ==
    /\ EditorStart
    /\ word1 \in TripleWords
    /\ word2 = << >>
    /\ word3 = << >>
    /\ phase = "first"
    /\ answer = NoAnswer

\* Two more words are given.
OtherWords ==
    /\ phase = "first"
    /\ \E v, w \in TripleWords : word2' = v /\ word3' = w
    /\ phase' = "three"
    /\ UNCHANGED << word1, answer >>
    /\ UNCHANGED editorVars

\* isRhyme on the pairs (word1, word2), (word2, word3) and (word1, word3).
ClassifyPairs ==
    /\ phase = "three"
    /\ answer' = [op  |-> "pairs",
                  r12 |-> isRhyme(word1, word2),
                  r23 |-> isRhyme(word2, word3),
                  r13 |-> isRhyme(word1, word3)]
    /\ phase' = "paired"
    /\ UNCHANGED << word1, word2, word3 >>
    /\ UNCHANGED editorVars

NextTriples == OtherWords \/ ClassifyPairs

SpecTriples == InitTriples /\ [][NextTriples]_vars

(***************************************************************************)
(* The editor opened on a saved song                                        *)
(***************************************************************************)

\* The number of stanzas of the saved song.
SavedStanzas == 30

\* The number of stanzas pasted after the saved ones.
MaxPastedStanzas == 5

Bat == << "b", "a", "t" >>
Bad == << "b", "a", "d" >>

\* "day\nway\n---\n", "bat\nbad\n---\n" and "way\nway\nday\n---\n"
Stanzas ==
    { << << "d", "a", "y" >>, << "w", "a", "y" >>, BreakLine >>,
      << Bat, Bad, BreakLine >>,
      << << "w", "a", "y" >>, << "w", "a", "y" >>, << "d", "a", "y" >>, BreakLine >> }

RECURSIVE Repeated(_, _)
Repeated(stanza, n) ==
    IF n = 0 THEN << >> ELSE stanza \o Repeated(stanza, n - 1)

\* localStorage.getItem(STORAGE_KEY): one stanza SavedStanzas times; the
\* text ends with "\n", so that split("\n") ends with an empty line.
SavedSongs ==
    { Repeated(stanza, SavedStanzas) \o << << >> >> : stanza \in { t \in Stanzas : Len(t) = 3 } }

\* Lines 737-742 and 1112-1114: editor.value = savedContent; updateEditor();
loadSavedContent ==
    /\ storage \in SavedSongs
    /\ lines = storage
    /\ rhymeGroups = Analysis(lines).rhymeGroups
    /\ nearRhymeGroups = Analysis(lines).nearRhymeGroups
    /\ lineNumbers = Analysis(lines).lineNumbers
    /\ syllableCounts = Analysis(lines).syllableCounts
    /\ rhymeIndicators = Analysis(lines).rhymeIndicators
    /\ rerun = FALSE

InitSong == loadSavedContent /\ WordsIdle

\* A stanza pasted into the empty last line of the buffer.
Paste ==
    /\ lines[Len(lines)] = << >>
    /\ \E stanza \in { t \in Stanzas :
                          Len(lines) + Len(t) <= 3 * (SavedStanzas + MaxPastedStanzas) + 1 } :
          updateEditor(SubSeq(lines, 1, Len(lines) - 1) \o stanza \o << << >> >>)

NextSong == Paste

SpecSong == InitSong /\ [][NextSong]_vars

(***************************************************************************)
(* Properties                                                               *)
(***************************************************************************)

Members(group) == { group[m] : m \in 1..Len(group) }

LineIndices == 0..(Len(lines) - 1)

\* The groups of both lists that hold line i, each tagged with its list.
GroupsOf(i) ==
    { << "rhyme", g >> : g \in { h \in 1..Len(rhymeGroups) : i \in Members(rhymeGroups[h]) } }
    \cup { << "near", g >> :
              g \in { h \in 1..Len(nearRhymeGroups) : i \in Members(nearRhymeGroups[h]) } }

AllGroups ==
    { rhymeGroups[g] : g \in 1..Len(rhymeGroups) }
    \cup { nearRhymeGroups[g] : g \in 1..Len(nearRhymeGroups) }

InNoGroup(i) == GroupsOf(i) = { }

BlankOrBreak(line) == Trim(line) = << >> \/ Trim(line) = BREAK_MARKER

Day == << "d", "a", "y" >>
Way == << "w", "a", "y" >>
Play == << "p", "l", "a", "y" >>

\* C1: after the grouping pass every line index occurs in at most one group,
\* counting the groups of rhymeGroups and of nearRhymeGroups together.
C1_AtMostOneGroup ==
    \A i \in LineIndices : Cardinality(GroupsOf(i)) <= 1

\* C2: every group of rhymeGroups and of nearRhymeGroups has at least two
\* line indices; a candidate that is only its anchor is in neither list.
C2_GroupsHaveTwo ==
    \A group \in AllGroups : Len(group) >= 2 /\ Cardinality(Members(group)) >= 2

\* A content line whose candidates were both discarded, next to a kept group.
C2_Witness ==
    /\ rhymeGroups # << >>
    /\ \E i \in LineIndices : IsContent(lines[i + 1]) /\ InNoGroup(i)

\* The content lines other than i with no break marker between them and i.
SectionMates(i) ==
    { j \in LineIndices \ { i } :
        /\ IsContent(lines[j + 1])
        /\ ~ \E b \in LineIndices :
               /\ Trim(lines[b + 1]) = BREAK_MARKER
               /\ (i < b /\ b < j) \/ (j < b /\ b < i) }

\* C3: no break marker lies between two members of a group; a content line
\* alone in its section is in no group; day, way, ---, play gives the one
\* rhyme group of lines 0 and 1 and no group holding line 3.
C3_NoGroupAcrossBreak ==
    /\ \A group \in AllGroups : \A a \in Members(group), c \in Members(group) :
          \A b \in LineIndices :
              (a < b /\ b < c) => Trim(lines[b + 1]) # BREAK_MARKER
    /\ \A i \in LineIndices :
          (IsContent(lines[i + 1]) /\ SectionMates(i) = { }) => InNoGroup(i)
    /\ (lines = << Day, Way, BreakLine, Play >>) =>
          /\ rhymeGroups = << << 0, 1 >> >>
          /\ InNoGroup(3)

C3_Witness == lines = << Day, Way, BreakLine, Play >>

\* C4: a line that trims to nothing or to the break marker is in no group and
\* has an empty rhyme indicator and an empty syllable cell; a buffer of such
\* lines only has no group and no annotation at all.
C4_BlankAndBreakBare ==
    /\ \A i \in LineIndices :
          BlankOrBreak(lines[i + 1]) =>
              /\ InNoGroup(i)
              /\ rhymeIndicators[i + 1] = NoIndicator
              /\ syllableCounts[i + 1] = EmptyCell
    /\ (\A i \in LineIndices : BlankOrBreak(lines[i + 1])) =>
          /\ rhymeGroups = << >>
          /\ nearRhymeGroups = << >>
          /\ \A i \in LineIndices :
                rhymeIndicators[i + 1] = NoIndicator /\ syllableCounts[i + 1] = EmptyCell

\* A blank line and a break marker, each with white space, beside a group.
C4_Witness ==
    /\ rhymeGroups # << >>
    /\ \E i \in LineIndices : lines[i + 1] # << >> /\ Trim(lines[i + 1]) = << >>
    /\ \E i \in LineIndices : lines[i + 1] # BREAK_MARKER /\ Trim(lines[i + 1]) = BREAK_MARKER

Classified == phase = "done"

Time == << "t", "i", "m", "e" >>
Fine == << "f", "i", "n", "e" >>

\* C5: isNearRhyme("time", "fine") returns true.
C5_TimeFineNear ==
    (Classified /\ word1 = Time /\ word2 = Fine) => answer.nearRhyme

\* C6: isRhyme(a, b) and isNearRhyme(a, b) are never both true.
C6_Exclusive ==
    Classified => ~ (answer.rhyme /\ answer.nearRhyme)

\* A perfect rhyme whose patterns also satisfy a rule of the near rhyme.
C6_Witness ==
    /\ Classified
    /\ answer.rhyme
    /\ PatternsNear(getPhoneticPattern(normalizeWord(word1)),
                    getPhoneticPattern(normalizeWord(word2)))

\* C7: isRhyme(a, b) = isRhyme(b, a) and isNearRhyme(a, b) = isNearRhyme(b, a).
C7_Symmetric ==
    Classified =>
        /\ answer.rhyme = answer.rhymeSwap
        /\ answer.nearRhyme = answer.nearSwap

\* Two words with the same last three letters, only one with a vowel.
C7_Witness ==
    /\ Classified
    /\ getRimeParts(word1).vowelCluster # << >>
    /\ getRimeParts(word2).vowelCluster = << >>
    /\ Len(getRimeParts(word1).ending) >= 2
    /\ getRimeParts(word1).ending = getRimeParts(word2).ending

\* C8: when a normalized word is empty, or the two normalized words are
\* equal, isRhyme and isNearRhyme are both false.
C8_NoSelfOrEmpty ==
    (/\ Classified
     /\ \/ normalizeWord(word1) = << >>
        \/ normalizeWord(word2) = << >>
        \/ normalizeWord(word1) = normalizeWord(word2))
    => (~answer.rhyme /\ ~answer.nearRhyme)

\* Two different words with the same, non-empty, normalized form.
C8_Witness ==
    /\ Classified
    /\ word1 # word2
    /\ normalizeWord(word1) # << >>
    /\ normalizeWord(word1) = normalizeWord(word2)

HasLetter(w) == \E k \in 1..Len(w) : ToLowerChar(w[k]) \in AZ

\* C9: countSyllables(w) is an integer, 0 when w has no letter a-z after
\* lowercasing and at least 1 otherwise.
C9_SyllablesIsCount ==
    (phase = "counted") =>
        /\ answer.syllables.type = "number"
        /\ IF HasLetter(word1) THEN answer.syllables.value >= 1
                               ELSE answer.syllables.value = 0

FirstGroupOf(groups, i) ==
    (CHOOSE g \in 1..Len(groups) :
        /\ i \in Members(groups[g])
        /\ \A h \in 1..(g - 1) : i \notin Members(groups[h])) - 1

InSomeGroup(groups, i) == \E g \in 1..Len(groups) : i \in Members(groups[g])

AnchorsInLineOrder(groups) ==
    \A g, h \in 1..Len(groups) : g < h => groups[g][1] < groups[h][1]

\* The 0-based positions of the groups of the list that hold line i.
PositionsOf(groups, i) ==
    { g - 1 : g \in { h \in 1..Len(groups) : i \in Members(groups[h]) } }

\* C11: a content line that is a member of a group is shown with the color
\* index (position of that group in its list, in creation order) mod 30; the
\* list is rhymeGroups when the line is shown as a rhyme and nearRhymeGroups
\* when it is shown as a near rhyme; the groups of each list are numbered in
\* the order of their anchor lines.
C11_ColorIsGroupIndexMod30 ==
    /\ AnchorsInLineOrder(rhymeGroups)
    /\ AnchorsInLineOrder(nearRhymeGroups)
    /\ \A i \in LineIndices :
          /\ GroupsOf(i) # { } => rhymeIndicators[i + 1].kind # "none"
          /\ rhymeIndicators[i + 1].kind = "rhyme" =>
                \A g \in PositionsOf(rhymeGroups, i) :
                    rhymeIndicators[i + 1].color = g % 30
          /\ rhymeIndicators[i + 1].kind = "near" =>
                \A g \in PositionsOf(nearRhymeGroups, i) :
                    rhymeIndicators[i + 1].color = g % 30

\* The same with the position of the first group of the list that holds the
\* line, which is what findIndex returns when several groups hold it.
ColorIsFirstGroupIndexMod30 ==
    /\ AnchorsInLineOrder(rhymeGroups)
    /\ AnchorsInLineOrder(nearRhymeGroups)
    /\ \A i \in LineIndices :
          /\ InSomeGroup(rhymeGroups, i) =>
                rhymeIndicators[i + 1] =
                    [kind |-> "rhyme", color |-> FirstGroupOf(rhymeGroups, i) % 30]
          /\ (~InSomeGroup(rhymeGroups, i) /\ InSomeGroup(nearRhymeGroups, i)) =>
                rhymeIndicators[i + 1] =
                    [kind |-> "near", color |-> FirstGroupOf(nearRhymeGroups, i) % 30]

\* C12: the near-rhyme scan anchored at a line runs only if the line is in no
\* rhyme group, the group created for it in the same iteration included: no
\* first member of a near-rhyme group is a member of a rhyme group.
C12_NearAnchorInNoRhymeGroup ==
    \A g \in 1..Len(nearRhymeGroups) : ~InSomeGroup(rhymeGroups, nearRhymeGroups[g][1])

\* C13: for two words whose normalized forms are non-empty and different,
\* isRhyme is true exactly when both rimes are non-empty and equal, or both
\* endings (the last 3 letters) are equal and at least 2 characters long,
\* words without a vowel cluster included.
C13_RhymeIffRimeOrEnding ==
    (/\ Classified
     /\ normalizeWord(word1) # << >>
     /\ normalizeWord(word2) # << >>
     /\ normalizeWord(word1) # normalizeWord(word2))
    => (answer.rhyme <=>
           \/ /\ getRimeParts(word1).rime # << >>
              /\ getRimeParts(word1).rime = getRimeParts(word2).rime
           \/ /\ getRimeParts(word1).ending = getRimeParts(word2).ending
              /\ Len(getRimeParts(word1).ending) >= 2)

Lower(i, j) == IF i < j THEN i ELSE j

Upper(i, j) == IF i < j THEN j ELSE i

\* C14: inSameSection(i, j) is true if and only if no break-marker position
\* lies strictly between i and j; a break marker at index i or at index j
\* does not make the result false, and the result is the same for (j, i).
C14_NoBreakStrictlyBetween ==
    \A i, j \in LineIndices :
        /\ inSameSection(BreakPositions(lines), i, j)
              <=> ~ \E breakPos \in BreakPositions(lines) :
                        Lower(i, j) < breakPos /\ breakPos < Upper(i, j)
        /\ inSameSection(BreakPositions(lines), i, j)
              <=> inSameSection(BreakPositions(lines), j, i)

\* C14 as amended: inSameSection(i, j) is true if and only if no break-marker
\* position lies after the smaller and up to the larger of i and j; a break
\* marker at the smaller index does not make the result false, one at the
\* larger index does; the result is the same for (j, i).
C14_NoBreakUpToLarger ==
    \A i, j \in LineIndices :
        /\ inSameSection(BreakPositions(lines), i, j)
              <=> ~ \E breakPos \in BreakPositions(lines) :
                        Lower(i, j) < breakPos /\ breakPos <= Upper(i, j)
        /\ inSameSection(BreakPositions(lines), i, j)
              <=> inSameSection(BreakPositions(lines), j, i)

\* A break marker at the larger index separates, one at the smaller index
\* does not, and a break marker strictly between two content lines separates.
C14_Witness ==
    \E i, j, k \in LineIndices :
        /\ i < j /\ j < k
        /\ BreakPositions(lines) = { j }
        /\ ~inSameSection(BreakPositions(lines), i, j)
        /\ ~inSameSection(BreakPositions(lines), j, i)
        /\ inSameSection(BreakPositions(lines), j, k)
        /\ ~inSameSection(BreakPositions(lines), i, k)
        /\ inSameSection(BreakPositions(lines), i, i)

LastWordOfLine(i) == getLastWord(lines[i + 1])

StrictlyIncreasing(group) ==
    \A m \in 1..(Len(group) - 1) : group[m] < group[m + 1]

\* C15: the members of every group are in strictly increasing line order,
\* the first member is the anchor, and the last word of every other member
\* is a rhyme (in rhymeGroups) or a near rhyme (in nearRhymeGroups) of the
\* last word of the anchor.
C15_MembersMatchAnchor ==
    /\ \A g \in 1..Len(rhymeGroups) :
          /\ StrictlyIncreasing(rhymeGroups[g])
          /\ \A m \in 2..Len(rhymeGroups[g]) :
                isRhyme(LastWordOfLine(rhymeGroups[g][1]), LastWordOfLine(rhymeGroups[g][m]))
    /\ \A g \in 1..Len(nearRhymeGroups) :
          /\ StrictlyIncreasing(nearRhymeGroups[g])
          /\ \A m \in 2..Len(nearRhymeGroups[g]) :
                isNearRhyme(LastWordOfLine(nearRhymeGroups[g][1]),
                            LastWordOfLine(nearRhymeGroups[g][m]))

\* A rhyme group and a near-rhyme group, each with two members after the
\* anchor that are no rhyme, respectively no near rhyme, of each other.
C15_Witness ==
    /\ \E g \in 1..Len(rhymeGroups) : \E m, n \in 2..Len(rhymeGroups[g]) :
          /\ m < n
          /\ ~isRhyme(LastWordOfLine(rhymeGroups[g][m]), LastWordOfLine(rhymeGroups[g][n]))
    /\ \E g \in 1..Len(nearRhymeGroups) : \E m, n \in 2..Len(nearRhymeGroups[g]) :
          /\ m < n
          /\ ~isNearRhyme(LastWordOfLine(nearRhymeGroups[g][m]),
                          LastWordOfLine(nearRhymeGroups[g][n]))

\* The final whitespace-separated token of a line that is not blank.
FinalToken(line) == SplitWhiteSpace(Trim(line))[Len(SplitWhiteSpace(Trim(line)))]

OnlyLetters(s) == \A k \in 1..Len(s) : s[k] \in AZ

\* C16: getLastWord(line) is the normalized form of the final
\* whitespace-separated token of the line: the empty string for a blank
\* line, and otherwise made of the letters a-z alone.
C16_LastWordIsNormalized ==
    phase = "lastWord" =>
        /\ OnlyLetters(answer.lastWord)
        /\ answer.lastWord =
              IF Trim(word1) = << >> THEN << >> ELSE normalizeWord(FinalToken(word1))

\* C16 as amended: getLastWord(line) is the empty string for a blank line and
\* otherwise the final whitespace-separated token of the line without the
\* punctuation characters .,!?;:"'()[]{} and in lower case; the other
\* characters outside a-z are kept, and normalizeWord of the result is the
\* normalized form of the final token.
C16_LastWordIsLoweredToken ==
    phase = "lastWord" =>
        /\ answer.lastWord =
              IF Trim(word1) = << >> THEN << >>
              ELSE ToLowerCase(StripPunctuation(FinalToken(word1)))
        /\ \A k \in 1..Len(answer.lastWord) :
              answer.lastWord[k] \notin WhiteSpace \cup Punctuation \cup UpperSet
        /\ normalizeWord(answer.lastWord) =
              IF Trim(word1) = << >> THEN << >> ELSE normalizeWord(FinalToken(word1))

\* The last word of a line of several words keeps a hyphen and a digit.
C16_Witness ==
    /\ phase = "lastWord"
    /\ Len(SplitWhiteSpace(Trim(word1))) > 1
    /\ answer.lastWord = << "t", "-", "1" >>

\* The pairs i < j of content lines with no break marker between them whose
\* last words rhyme.
RhymingPairs ==
    { p \in LineIndices \X LineIndices :
        /\ p[1] < p[2]
        /\ IsContent(lines[p[1] + 1])
        /\ IsContent(lines[p[2] + 1])
        /\ ~ \E breakPos \in BreakPositions(lines) : p[1] < breakPos /\ breakPos < p[2]
        /\ isRhyme(LastWordOfLine(p[1]), LastWordOfLine(p[2])) }

IsAnchor(groups, i) == \E g \in 1..Len(groups) : groups[g][1] = i

\* C17: if two content lines i < j have no break marker between them and
\* their last words rhyme, then both i and j are members of some rhyme group.
C17_RhymingLinesAreGrouped ==
    \A p \in RhymingPairs :
        InSomeGroup(rhymeGroups, p[1]) /\ InSomeGroup(rhymeGroups, p[2])

\* C17 as amended: under the same conditions i is a member of some rhyme
\* group, and j is a member of the group whose first member is i when there
\* is such a group; when i is a later member of another line's group, j is
\* only grouped if it rhymes with an anchor.
C17_RhymingLinesFollowAnchor ==
    \A p \in RhymingPairs :
        /\ InSomeGroup(rhymeGroups, p[1])
        /\ IsAnchor(rhymeGroups, p[1]) =>
              \E g \in 1..Len(rhymeGroups) :
                  rhymeGroups[g][1] = p[1] /\ p[2] \in Members(rhymeGroups[g])

\* A line that rhymes with an earlier line of its section and is in no
\* rhyme group, the earlier line being a later member of a group; and a
\* second pair whose earlier line is an anchor.
C17_Witness ==
    /\ \E p \in RhymingPairs :
          /\ ~IsAnchor(rhymeGroups, p[1])
          /\ ~InSomeGroup(rhymeGroups, p[2])
    /\ \E p \in RhymingPairs : IsAnchor(rhymeGroups, p[1])

ListShownAs(kind) == IF kind = "rhyme" THEN rhymeGroups ELSE nearRhymeGroups

\* C18: no singleton is surfaced in the indicators: every line shown with a
\* kind (rhyme dot or near-rhyme outlined dot) and a color index has another
\* line of its section shown with the same kind and the same color index,
\* taken from the same group.
C18_NoSingletonShown ==
    \A i \in LineIndices :
        rhymeIndicators[i + 1].kind # "none" =>
            \E j \in LineIndices \ { i } :
                /\ rhymeIndicators[j + 1] = rhymeIndicators[i + 1]
                /\ ~ \E breakPos \in BreakPositions(lines) :
                        Lower(i, j) < breakPos /\ breakPos < Upper(i, j)
                /\ \E g \in 1..Len(ListShownAs(rhymeIndicators[i + 1].kind)) :
                      { i, j } \subseteq Members(ListShownAs(rhymeIndicators[i + 1].kind)[g])

\* C19: isRhyme is transitive over distinct words: for three words whose
\* normalized forms are pairwise different, isRhyme of the first and the
\* second and of the second and the third imply isRhyme of the first and the
\* third, whether a match comes from the rimes or from the last 3 letters.
C19_RhymeIsTransitive ==
    (/\ phase = "paired"
     /\ normalizeWord(word1) # normalizeWord(word2)
     /\ normalizeWord(word2) # normalizeWord(word3)
     /\ normalizeWord(word1) # normalizeWord(word3)
     /\ answer.r12
     /\ answer.r23)
    => answer.r13

\* Three different words: the first two have the same rime, the last two
\* different rimes and the same last 3 letters, and the first and the third
\* rhyme, their rimes being different too.
C19_Witness ==
    /\ phase = "paired"
    /\ normalizeWord(word1) # normalizeWord(word3)
    /\ answer.r12 /\ answer.r23 /\ answer.r13
    /\ getRimeParts(word1).rime = getRimeParts(word2).rime
    /\ getRimeParts(word2).rime # getRimeParts(word3).rime
    /\ getRimeParts(word1).rime # getRimeParts(word3).rime

====
